---- MODULE Spec2Model ----
(***************************************************************************)
(* Model of cleanup-home/cleanup_home.py: CleanupScanner (the tree walk,   *)
(* the classification into buckets, the size-then-hash duplicate funnel),  *)
(* get_files_for_category, Cleaner and the menu loop of main().            *)
(*                                                                         *)
(* A path is the sequence of its parts (pathlib's Path.parts); a file's    *)
(* name is the last part.  Sizes are bytes, times are whole days.          *)
(***************************************************************************)
EXTENDS Integers, Sequences, FiniteSets, TLC

(***************************************************************************)
(* Bounds of the model.                                                    *)
(***************************************************************************)
\* at most this many files exist in the tree a run starts from
MaxFiles == 3
\* modification times range over 0..MaxTime
MaxTime == 1
\* at most this many rescans ('r') in one run of the menu
MaxRescans == 1

(***************************************************************************)
(* Module-level configuration data of the program.                         *)
(***************************************************************************)
SKIP_DIRS ==
    { "Library", "Applications", ".git", "node_modules", ".ssh", ".config",
      ".Trash", ".npm", ".cargo", ".rustup", ".pyenv", ".nvm", ".rbenv",
      ".local", ".cache", ".vscode", ".idea", "venv", ".venv", "__pycache__",
      ".gradle", ".m2", ".docker", "Movies", "Music", "Pictures",
      "Photos Library.photoslibrary" }

JUNK_EXTENSIONS ==
    { ".tmp", ".temp", ".log", ".bak", ".old", ".swp", ".swo",
      ".DS_Store", ".Thumbs.db", ".thumbs.db", ".desktop.ini" }

JUNK_NAMES ==
    { ".DS_Store", "Thumbs.db", "desktop.ini", ".localized",
      ".CFUserTextEncoding", ".Spotlight-V100", ".fseventsd" }

JUNK_PREFIXES == { "._", "~$", ".~" }

\* 1 MB in bytes: large_threshold_mb * 1024 * 1024
MB == 1048576
\* only files larger than this are candidates for duplicate detection
DupMinSize == 1024
\* quick mode samples the head and the tail of files larger than this
QuickHashMin == 8192

(***************************************************************************)
(* Strings as character sequences.  TLC cannot take a string apart, so the *)
(* characters of every string the model uses are tabulated here.           *)
(***************************************************************************)
Chars(s) ==
    CASE s = "a.txt"     -> << "a", ".", "t", "x", "t" >>
      [] s = "b.txt"     -> << "b", ".", "t", "x", "t" >>
      [] s = "c.txt"     -> << "c", ".", "t", "x", "t" >>
      [] s = "c.tmp"     -> << "c", ".", "t", "m", "p" >>
      [] s = "D.LOG"     -> << "D", ".", "L", "O", "G" >>
      [] s = "._a"       -> << ".", "_", "a" >>
      [] s = ".DS_Store" -> << ".", "D", "S", "_", "S", "t", "o", "r", "e" >>
      [] s = ".tmp"      -> << ".", "t", "m", "p" >>
      [] s = "s.txt"     -> << "s", ".", "t", "x", "t" >>
      [] s = "docs"      -> << "d", "o", "c", "s" >>
      [] s = "sub"       -> << "s", "u", "b" >>
      [] s = "Music"     -> << "M", "u", "s", "i", "c" >>
      [] s = "in"        -> << "i", "n" >>
      [] s = ".temp"     -> << ".", "t", "e", "m", "p" >>
      [] s = ".log"      -> << ".", "l", "o", "g" >>
      [] s = ".bak"      -> << ".", "b", "a", "k" >>
      [] s = ".old"      -> << ".", "o", "l", "d" >>
      [] s = ".swp"      -> << ".", "s", "w", "p" >>
      [] s = ".swo"      -> << ".", "s", "w", "o" >>
      [] s = ".Thumbs.db"   -> << ".", "T", "h", "u", "m", "b", "s", ".", "d", "b" >>
      [] s = ".thumbs.db"   -> << ".", "t", "h", "u", "m", "b", "s", ".", "d", "b" >>
      [] s = ".desktop.ini" -> << ".", "d", "e", "s", "k", "t", "o", "p", ".", "i", "n", "i" >>
      [] s = "Thumbs.db"    -> << "T", "h", "u", "m", "b", "s", ".", "d", "b" >>
      [] s = "desktop.ini"  -> << "d", "e", "s", "k", "t", "o", "p", ".", "i", "n", "i" >>
      [] s = ".localized"   -> << ".", "l", "o", "c", "a", "l", "i", "z", "e", "d" >>
      [] s = ".CFUserTextEncoding" ->
             << ".", "C", "F", "U", "s", "e", "r", "T", "e", "x", "t",
                "E", "n", "c", "o", "d", "i", "n", "g" >>
      [] s = ".Spotlight-V100" ->
             << ".", "S", "p", "o", "t", "l", "i", "g", "h", "t", "-", "V", "1", "0", "0" >>
      [] s = ".fseventsd"   -> << ".", "f", "s", "e", "v", "e", "n", "t", "s", "d" >>
      [] s = ".cleanup_backup" ->
             << ".", "c", "l", "e", "a", "n", "u", "p", "_", "b", "a", "c", "k", "u", "p" >>
      [] s = "a_20260101_000000.txt" ->
             << "a", "_", "2", "0", "2", "6", "0", "1", "0", "1", "_",
                "0", "0", "0", "0", "0", "0", ".", "t", "x", "t" >>
      [] s = "a_20260101_000001.txt" ->
             << "a", "_", "2", "0", "2", "6", "0", "1", "0", "1", "_",
                "0", "0", "0", "0", "0", "1", ".", "t", "x", "t" >>
      [] s = "a_20260101_000000_20260101_000000.txt" ->
             << "a", "_", "2", "0", "2", "6", "0", "1", "0", "1", "_", "0",
                "0", "0", "0", "0", "0", "_", "2", "0", "2", "6", "0", "1",
                "0", "1", "_", "0", "0", "0", "0", "0", "0", ".", "t", "x",
                "t" >>
      [] s = "a_20260101_000000_20260101_000001.txt" ->
             << "a", "_", "2", "0", "2", "6", "0", "1", "0", "1", "_", "0",
                "0", "0", "0", "0", "0", "_", "2", "0", "2", "6", "0", "1",
                "0", "1", "_", "0", "0", "0", "0", "0", "1", ".", "t", "x",
                "t" >>
      [] s = ".cleanup_backup_20260101_000000" ->
             << ".", "c", "l", "e", "a", "n", "u", "p", "_", "b", "a", "c", "k", "u", "p",
                "_", "2", "0", "2", "6", "0", "1", "0", "1", "_",
                "0", "0", "0", "0", "0", "0" >>
      [] s = ".cleanup_backup_20260101_000001" ->
             << ".", "c", "l", "e", "a", "n", "u", "p", "_", "b", "a", "c", "k", "u", "p",
                "_", "2", "0", "2", "6", "0", "1", "0", "1", "_",
                "0", "0", "0", "0", "0", "1" >>
      [] s = "._"        -> << ".", "_" >>
      [] s = "~$"        -> << "~", "$" >>
      [] s = ".~"        -> << ".", "~" >>

\* str.lower() on one character
LowerChar(c) ==
    CASE c = "D" -> "d" [] c = "L" -> "l" [] c = "O" -> "o" [] c = "G" -> "g"
      [] c = "S" -> "s" [] c = "T" -> "t" [] c = "C" -> "c" [] c = "F" -> "f"
      [] c = "U" -> "u" [] c = "E" -> "e" [] c = "V" -> "v"
      [] OTHER -> c

\* str.lower()
Lower(cs) == [i \in 1..Len(cs) |-> LowerChar(cs[i])]

\* str.rfind("."), 0-based, -1 when there is no dot
RFindDot(cs) ==
    LET dots == { i \in 1..Len(cs) : cs[i] = "." }
    IN  IF dots = {} THEN -1
        ELSE (CHOOSE i \in dots : \A j \in dots : j <= i) - 1

\* PurePath.suffix: the last dot and what follows it, unless the dot is the
\* first or the last character of the name
PathSuffix(cs) ==
    LET i == RFindDot(cs)
    IN  IF 0 < i /\ i < Len(cs) - 1 THEN SubSeq(cs, i + 1, Len(cs)) ELSE << >>

\* PurePath.stem: the name without its suffix
PathStem(cs) == SubSeq(cs, 1, Len(cs) - Len(PathSuffix(cs)))

\* the names a file or a directory can have
Names ==
    { "a.txt", "b.txt", "c.txt", "c.tmp", "D.LOG", "._a", ".DS_Store", "s.txt",
      "docs", "sub", "Music", "in", ".cleanup_backup",
      "a_20260101_000000.txt", "a_20260101_000001.txt",
      "a_20260101_000000_20260101_000000.txt", "a_20260101_000000_20260101_000001.txt",
      ".cleanup_backup_20260101_000000", ".cleanup_backup_20260101_000001" }

\* the string of a character sequence
Str(cs) == CHOOSE s \in Names : Chars(s) = cs

\* str.startswith
StartsWith(cs, prefix) ==
    /\ Len(prefix) <= Len(cs)
    /\ SubSeq(cs, 1, Len(prefix)) = prefix

(***************************************************************************)
(* CleanupScanner.should_skip and CleanupScanner.is_junk_file              *)
(***************************************************************************)
\* should_skip that skips nothing
should_skip_Never(path) == FALSE

should_skip(path) == \E i \in 1..Len(path) : path[i] \in SKIP_DIRS

is_junk_file(path) ==
    LET name == path[Len(path)]
        suffix == Lower(PathSuffix(Chars(name)))
    IN  \/ name \in JUNK_NAMES
        \/ \E e \in JUNK_EXTENSIONS : Chars(e) = suffix
        \/ name = ".DS_Store"
        \/ \E p \in JUNK_PREFIXES : StartsWith(Chars(name), Chars(p))

(***************************************************************************)
(* The program's state.                                                    *)
(***************************************************************************)
VARIABLES
    args,       \* the parsed command line: path, large_mb, old_days, backup
    fs,         \* the file system: directories, files, unreadable files
    clock,      \* datetime.now(), in days
    pc,         \* where main() is: "start", "menu" or "exit"
    scanner,    \* the CleanupScanner main() holds
    summary,    \* the totals print_summary showed last
    cleaner,    \* the Cleaner's counters
    handed,     \* the paths passed to Cleaner.clean_category since the last scan
    keep,       \* the first member of every duplicate group of the last scan
    rescans,    \* how many times 'r' was chosen
    prev,       \* the result before the last 'r', if nothing was deleted since
    complete    \* scanner holds the result of a scan() that returned

vars ==
    << args, fs, clock, pc, scanner, summary, cleaner, handed, keep, rescans,
       prev, complete >>

(***************************************************************************)
(* The file system.  fs.dirs is the set of directories, fs.files maps each *)
(* file to its size, modification time and content, fs.unreadable holds    *)
(* the files whose content cannot be opened, fs.nostat the directory       *)
(* entries whose stat() raises OSError (a dangling link, a file that went  *)
(* away after the listing).  A content is three blocks: the first 4096     *)
(* bytes, the middle, the last 4096 bytes.                                 *)
(***************************************************************************)
Home == << "home" >>

\* the order in which a directory listing returns its entries
NameOrder ==
    << "a.txt", "b.txt", "c.txt", "c.tmp", "D.LOG", "._a", ".DS_Store", "s.txt",
       "docs", "sub", "Music", "in", ".cleanup_backup",
       "a_20260101_000000.txt", "a_20260101_000001.txt",
       "a_20260101_000000_20260101_000000.txt", "a_20260101_000000_20260101_000001.txt",
       ".cleanup_backup_20260101_000000", ".cleanup_backup_20260101_000001" >>

Times == 0..MaxTime

\* datetime.now() when main() starts, later than every modification time of
\* the tree
Now == MaxTime + 1

Sizes == { 0, DupMinSize, 2 * DupMinSize, MB }

Content(h, m, t) == [head |-> h, mid |-> m, tail |-> t]

Contents == { Content(0, 0, 0), Content(0, 1, 0) }

Parent(path) == SubSeq(path, 1, Len(path) - 1)

IsPrefix(a, b) == Len(a) <= Len(b) /\ SubSeq(b, 1, Len(a)) = a

\* os.scandir: the sub-directories and the files of a directory, in listing order
SubdirNames(f, d) == SelectSeq(NameOrder, LAMBDA n : Append(d, n) \in f.dirs)

FileNames(f, d) == SelectSeq(NameOrder, LAMBDA n : Append(d, n) \in DOMAIN f.files)

(***************************************************************************)
(* Sequence helpers.                                                       *)
(***************************************************************************)
RECURSIVE Flatten(_)
Flatten(ss) == IF ss = << >> THEN << >> ELSE Head(ss) \o Flatten(Tail(ss))

Map(s, Op(_)) == [i \in 1..Len(s) |-> Op(s[i])]

Range(s) == { s[i] : i \in 1..Len(s) }

RECURSIVE SumSeq(_)
SumSeq(s) == IF s = << >> THEN 0 ELSE Head(s) + SumSeq(Tail(s))

\* the distinct elements of s in order of first occurrence (the key order of
\* a dict filled by walking s)
RECURSIVE KeyOrder(_)
KeyOrder(s) ==
    IF s = << >> THEN << >>
    ELSE LET init == KeyOrder(SubSeq(s, 1, Len(s) - 1))
             last == s[Len(s)]
         IN  IF last \in Range(init) THEN init ELSE Append(init, last)

\* list.sort(key=...) on a sequence of [key, item] records: x goes before the
\* first element whose key is strictly greater, so elements with equal keys
\* keep their order (the sort is stable)
RECURSIVE InsertSorted(_, _)
InsertSorted(sorted, x) ==
    IF sorted = << >> THEN << x >>
    ELSE IF x.key < Head(sorted).key THEN << x >> \o sorted
         ELSE << Head(sorted) >> \o InsertSorted(Tail(sorted), x)

RECURSIVE StableSort(_)
StableSort(s) ==
    IF s = << >> THEN << >>
    ELSE InsertSorted(StableSort(SubSeq(s, 1, Len(s) - 1)), s[Len(s)])

\* list.sort(key=..., reverse=True): descending, and still stable, which is
\* the ascending stable sort on the negated keys
StableSortReverse(s) ==
    LET neg(x) == [key |-> 0 - x.key, item |-> x.item]
    IN  Map(StableSort(Map(s, neg)), neg)

(***************************************************************************)
(* CleanupScanner.get_file_hash.  md5 is taken to be collision free: the   *)
(* digest is the data fed to the hasher.  A failure is the empty digest.   *)
(***************************************************************************)
NoHash == << >>

get_file_hash(f, filepath) ==
    IF \/ filepath \notin DOMAIN f.files
       \/ filepath \in f.nostat
       \/ filepath \in f.unreadable
    THEN NoHash
    ELSE LET file_size == f.files[filepath].size
             c == f.files[filepath].content
         IN  IF file_size > QuickHashMin
             THEN << "md5", c.head, c.tail, file_size >>
             ELSE << "md5", file_size, c.head, c.mid, c.tail >>

(***************************************************************************)
(* CleanupScanner.__init__                                                 *)
(***************************************************************************)
\* now is what datetime.now() returns when the scanner is built
CleanupScanner(root_path, large_threshold_mb, old_days, now) ==
    [ root_path          |-> root_path,
      large_threshold    |-> large_threshold_mb * MB,
      old_threshold      |-> now - old_days,
      old_days           |-> old_days,
      duplicates         |-> << >>,
      empty_files        |-> << >>,
      empty_dirs         |-> << >>,
      junk_files         |-> << >>,
      large_files        |-> << >>,
      old_files          |-> << >>,
      files_scanned      |-> 0,
      dirs_scanned       |-> 0,
      total_size_scanned |-> 0 ]

(***************************************************************************)
(* CleanupScanner.scan, first pass: the walk.                              *)
(***************************************************************************)
\* RetainedDirs without the filter
RetainedDirs_Unfiltered(dirs) == dirs

\* dirs[:] = [d for d in dirs if d not in SKIP_DIRS]
RetainedDirs(dirs) == SelectSeq(dirs, LAMBDA d : d \notin SKIP_DIRS)

\* os.walk(top) as the loop of scan() drives it: one step per directory that
\* os.walk yields, top-down; a directory that cannot be listed yields nothing
\* (onerror is None); the loop prunes step.dirs before os.walk descends
RECURSIVE Walk(_, _)
Walk(f, top) ==
    IF top \notin f.dirs THEN << >>
    ELSE LET skip == should_skip(top)
             kept == IF skip THEN << >> ELSE RetainedDirs(SubdirNames(f, top))
             step == [ root    |-> top,
                       skipped |-> skip,
                       dirs    |-> kept,
                       files   |-> FileNames(f, top) ]
         IN  << step >> \o
             Flatten([i \in 1..Len(kept) |-> Walk(f, Append(top, kept[i]))])

\* the steps that get past "if self.should_skip(root_path): ... continue"
VisitedSteps(f, top) == SelectSeq(Walk(f, top), LAMBDA st : ~st.skipped)

\* if not dirs and not files: self.empty_dirs.append(root_path)
IsEmptyDir(step) == step.dirs = << >> /\ step.files = << >>

\* StatOk for which no stat() fails
StatOk_Always(f, filepath) == TRUE

\* "try: stat = filepath.stat()" gets past the call
StatOk(f, filepath) == filepath \notin f.nostat

\* filepath.stat(): (filepath, file_size, mtime)
FileRecord(f, filepath) ==
    [ path  |-> filepath,
      size  |-> f.files[filepath].size,
      mtime |-> f.files[filepath].mtime ]

\* the records of one directory's files; "except ...: continue" leaves out
\* the files whose stat() fails
StepFiles(f, step) ==
    LET paths == [i \in 1..Len(step.files) |-> Append(step.root, step.files[i])]
        ok(q) == StatOk(f, q)
    IN  Map(SelectSeq(paths, ok), LAMBDA q : FileRecord(f, q))

\* all_files, in order of encounter
AllFiles(f, top) ==
    LET steps == VisitedSteps(f, top)
    IN  Flatten([i \in 1..Len(steps) |-> StepFiles(f, steps[i])])

\* Classify with the junk test ahead of the size test
Classify_JunkFirst(self, rec) ==
    IF is_junk_file(rec.path) THEN { "junk" }
    ELSE IF rec.size = 0 THEN { "empty" }
    ELSE (IF rec.size >= self.large_threshold THEN { "large" } ELSE {})
         \cup (IF rec.mtime < self.old_threshold THEN { "old" } ELSE {})

\* Classify with the large and old tests outside the elif chain
Classify_NoElse(self, rec) ==
    (IF rec.size = 0 THEN { "empty" }
     ELSE IF is_junk_file(rec.path) THEN { "junk" } ELSE {})
    \cup (IF rec.size >= self.large_threshold THEN { "large" } ELSE {})
    \cup (IF rec.mtime < self.old_threshold THEN { "old" } ELSE {})

\* "Check categories": the buckets a file record is appended to
Classify(self, rec) ==
    IF rec.size = 0 THEN { "empty" }
    ELSE IF is_junk_file(rec.path) THEN { "junk" }
    ELSE (IF rec.size >= self.large_threshold THEN { "large" } ELSE {})
         \cup (IF rec.mtime < self.old_threshold THEN { "old" } ELSE {})

(***************************************************************************)
(* CleanupScanner.scan, second pass: the duplicates.                       *)
(***************************************************************************)
\* IsDupCandidate without the minimum size
IsDupCandidate_NonEmpty(rec) == rec.size > 0 /\ ~is_junk_file(rec.path)

\* IsDupCandidate with >= for >
IsDupCandidate_AtLeast(rec) == rec.size >= DupMinSize /\ ~is_junk_file(rec.path)

\* if file_size > 1024 and not self.is_junk_file(filepath)
IsDupCandidate(rec) == rec.size > DupMinSize /\ ~is_junk_file(rec.path)

\* SortNewestFirst as an ascending sort turned around, which also turns
\* around the files of equal modification time
SortNewestFirst_Reversed(dup_files) ==
    LET up == StableSort(Map(dup_files, LAMBDA r : [key |-> r.mtime, item |-> r]))
    IN  [i \in 1..Len(up) |-> up[Len(up) + 1 - i].item]

\* dup_files.sort(key=lambda x: x[1], reverse=True)
SortNewestFirst(dup_files) ==
    Map(StableSortReverse(Map(dup_files, LAMBDA r : [key |-> r.mtime, item |-> r])),
        LAMBDA x : x.item)

\* HashGroups without "if file_hash:": the empty digest is a key like any other
HashGroups_KeepFailed(f, files) ==
    LET tagged == Map(files, LAMBDA r : [rec |-> r, hash |-> get_file_hash(f, r.path)])
        keys   == KeyOrder(Map(tagged, LAMBDA t : t.hash))
        group(h) == Map(SelectSeq(tagged, LAMBDA t : t.hash = h), LAMBDA t : t.rec)
        dups   == SelectSeq(keys, LAMBDA h : Len(group(h)) > 1)
    IN  Map(dups, LAMBDA h :
              [ hash  |-> h,
                files |-> Map(SortNewestFirst(group(h)), LAMBDA r : r.path) ])

\* the hash_groups of one size group: its members whose hash is not empty,
\* keyed by hash in order of first occurrence; an entry per hash with more
\* than one member, sorted
HashGroups(f, files) ==
    LET tagged == Map(files, LAMBDA r : [rec |-> r, hash |-> get_file_hash(f, r.path)])
        hashed == SelectSeq(tagged, LAMBDA t : t.hash # NoHash)
        keys   == KeyOrder(Map(hashed, LAMBDA t : t.hash))
        group(h) == Map(SelectSeq(hashed, LAMBDA t : t.hash = h), LAMBDA t : t.rec)
        dups   == SelectSeq(keys, LAMBDA h : Len(group(h)) > 1)
    IN  Map(dups, LAMBDA h :
              [ hash  |-> h,
                files |-> Map(SortNewestFirst(group(h)), LAMBDA r : r.path) ])

\* self.duplicates[file_hash] = ...: a dict keeps the position of a key it
\* already holds
DictSet(d, entry) ==
    IF \E i \in 1..Len(d) : d[i].hash = entry.hash
    THEN [i \in 1..Len(d) |-> IF d[i].hash = entry.hash THEN entry ELSE d[i]]
    ELSE Append(d, entry)

RECURSIVE DictSetAll(_, _)
DictSetAll(d, entries) ==
    IF entries = << >> THEN d
    ELSE DictSetAll(DictSet(d, Head(entries)), Tail(entries))

\* FindDuplicates that takes every size group of two or more for a group
FindDuplicates_SizeOnly(f, all_files) ==
    LET cands == SelectSeq(all_files, IsDupCandidate)
        sizes == KeyOrder(Map(cands, LAMBDA r : r.size))
        size_group(s) == SelectSeq(cands, LAMBDA r : r.size = s)
        potential_dups == SelectSeq(sizes, LAMBDA s : Len(size_group(s)) > 1)
    IN  Map(potential_dups, LAMBDA s :
              [ hash  |-> get_file_hash(f, size_group(s)[1].path),
                files |-> Map(SortNewestFirst(size_group(s)), LAMBDA r : r.path) ])

\* size_groups, potential_dups and the loop over them
FindDuplicates(f, all_files) ==
    LET cands == SelectSeq(all_files, IsDupCandidate)
        sizes == KeyOrder(Map(cands, LAMBDA r : r.size))
        size_group(s) == SelectSeq(cands, LAMBDA r : r.size = s)
        potential_dups == SelectSeq(sizes, LAMBDA s : Len(size_group(s)) > 1)
    IN  Flatten(Map(potential_dups, LAMBDA s : HashGroups(f, size_group(s))))

(***************************************************************************)
(* CleanupScanner.scan                                                     *)
(***************************************************************************)
scan(self, f) ==
    LET steps     == VisitedSteps(f, self.root_path)
        all_files == AllFiles(f, self.root_path)
        bucket(b) == SelectSeq(all_files, LAMBDA r : b \in Classify(self, r))
        paths(rs) == Map(rs, LAMBDA r : r.path)
        large     == Map(bucket("large"), LAMBDA r : [path |-> r.path, size |-> r.size])
        old       == Map(bucket("old"), LAMBDA r : [path |-> r.path, mtime |-> r.mtime])
    IN  [ self EXCEPT
            !.dirs_scanned = @ + Len(steps),
            !.empty_dirs = @ \o Map(SelectSeq(steps, IsEmptyDir), LAMBDA st : st.root),
            !.files_scanned = @ + Len(all_files),
            !.total_size_scanned = @ + SumSeq(Map(all_files, LAMBDA r : r.size)),
            !.empty_files = @ \o paths(bucket("empty")),
            !.junk_files = @ \o paths(bucket("junk")),
            !.duplicates = DictSetAll(@, FindDuplicates(f, all_files)),
            !.large_files =
                Map(StableSortReverse(Map(@ \o large,
                        LAMBDA x : [key |-> x.size, item |-> x])), LAMBDA x : x.item),
            !.old_files =
                Map(StableSort(Map(@ \o old,
                        LAMBDA x : [key |-> x.mtime, item |-> x])), LAMBDA x : x.item) ]

(***************************************************************************)
(* A scan() that KeyboardInterrupt cuts short.  Neither try of scan() nor  *)
(* the one of get_file_hash catches it, so the scanner is left as it was   *)
(* when the interrupt came: in the walk, after the first n directories     *)
(* were counted and k files of the n-th were recorded; or past the walk,   *)
(* after j duplicate groups were stored.  The final sorts have not run.    *)
(***************************************************************************)
PartialBuckets(self, steps, all_files) ==
    LET bucket(b) == SelectSeq(all_files, LAMBDA r : b \in Classify(self, r))
        paths(rs) == Map(rs, LAMBDA r : r.path)
    IN  [ self EXCEPT
            !.dirs_scanned = @ + Len(steps),
            !.empty_dirs = @ \o Map(SelectSeq(steps, IsEmptyDir), LAMBDA st : st.root),
            !.files_scanned = @ + Len(all_files),
            !.total_size_scanned = @ + SumSeq(Map(all_files, LAMBDA r : r.size)),
            !.empty_files = @ \o paths(bucket("empty")),
            !.junk_files = @ \o paths(bucket("junk")),
            !.large_files = @ \o Map(bucket("large"),
                                     LAMBDA r : [path |-> r.path, size |-> r.size]),
            !.old_files = @ \o Map(bucket("old"),
                                   LAMBDA r : [path |-> r.path, mtime |-> r.mtime]) ]

InterruptedInWalk(self, f, n, k) ==
    LET steps  == VisitedSteps(f, self.root_path)
        before == Flatten([i \in 1..(n - 1) |-> StepFiles(f, steps[i])])
    IN  PartialBuckets(self, SubSeq(steps, 1, n),
                       before \o SubSeq(StepFiles(f, steps[n]), 1, k))

InterruptedInHashing(self, f, j) ==
    LET all_files == AllFiles(f, self.root_path)
        walked    == PartialBuckets(self, VisitedSteps(f, self.root_path), all_files)
    IN  [ walked EXCEPT
            !.duplicates = DictSetAll(@, SubSeq(FindDuplicates(f, all_files), 1, j)) ]

\* every state an interrupt can leave the scanner in
InterruptedScans(self, f) ==
    LET steps == VisitedSteps(f, self.root_path)
        dups  == FindDuplicates(f, AllFiles(f, self.root_path))
    IN  UNION { { InterruptedInWalk(self, f, n, k) :
                    k \in 0..Len(StepFiles(f, steps[n])) } : n \in 1..Len(steps) }
        \cup { InterruptedInHashing(self, f, j) : j \in 0..Len(dups) }

(***************************************************************************)
(* CleanupScanner.get_duplicate_size and the sizes of print_summary        *)
(***************************************************************************)
\* filepath.stat().st_size of a path that exists
SizeNow(f, filepath) ==
    IF filepath \in DOMAIN f.files THEN f.files[filepath].size ELSE 0

\* "try: total += filepath.stat().st_size / except: pass" over files[1:]
get_duplicate_size(self, f) ==
    LET rest == Flatten(Map(self.duplicates, LAMBDA e : SubSeq(e.files, 2, Len(e.files))))
        there(q) == q \in DOMAIN f.files /\ q \notin f.nostat
    IN  SumSeq(Map(SelectSeq(rest, there), LAMBDA q : SizeNow(f, q)))

\* the (count, size) pairs of the six categories print_summary builds: the
\* junk and old sizes are read from the files that exist, the large size
\* is the sum of the sizes the scan recorded
print_summary(self, f) ==
    LET there(q) == q \in f.dirs \/ q \in DOMAIN f.files
        old == Map(self.old_files, LAMBDA x : x.path)
    IN  [ printed    |-> TRUE,
          count      |-> << Len(self.duplicates), Len(self.empty_files),
                            Len(self.empty_dirs), Len(self.junk_files),
                            Len(self.large_files), Len(self.old_files) >>,
          duplicates |-> get_duplicate_size(self, f),
          junk       |-> SumSeq(Map(SelectSeq(self.junk_files, there),
                                    LAMBDA q : SizeNow(f, q))),
          large      |-> SumSeq(Map(self.large_files, LAMBDA x : x.size)),
          old        |-> SumSeq(Map(SelectSeq(old, there), LAMBDA q : SizeNow(f, q))) ]

(***************************************************************************)
(* CleanupScanner.get_files_for_category                                   *)
(***************************************************************************)
\* get_files_for_category that drops the last member of a group, not the first
get_files_for_category_DropLast(self, category) ==
    CASE category = "1" ->
             Flatten(Map(self.duplicates,
                         LAMBDA e : SubSeq(e.files, 1, Len(e.files) - 1)))
      [] category = "2" -> self.empty_files
      [] category = "3" -> self.empty_dirs
      [] category = "4" -> self.junk_files
      [] category = "5" -> Map(self.large_files, LAMBDA x : x.path)
      [] category = "6" -> Map(self.old_files, LAMBDA x : x.path)
      [] OTHER -> << >>

get_files_for_category(self, category) ==
    CASE category = "1" ->
             Flatten(Map(self.duplicates,
                         LAMBDA e : SubSeq(e.files, 2, Len(e.files))))
      [] category = "2" -> self.empty_files
      [] category = "3" -> self.empty_dirs
      [] category = "4" -> self.junk_files
      [] category = "5" -> Map(self.large_files, LAMBDA x : x.path)
      [] category = "6" -> Map(self.old_files, LAMBDA x : x.path)
      [] OTHER -> << >>

(***************************************************************************)
(* Cleaner.  Without backup files are unlinked and directories removed;    *)
(* with backup and a backup directory they are moved under that directory. *)
(***************************************************************************)
Exists(f, path) == path \in f.dirs \/ path \in DOMAIN f.files

HasChildren(f, path) ==
    \E q \in f.dirs \cup DOMAIN f.files : Len(q) > 0 /\ Parent(q) = path

Unlink(f, path) ==
    [ f EXCEPT !.files = [q \in DOMAIN f.files \ { path } |-> f.files[q]],
               !.unreadable = @ \ { path },
               !.nostat = @ \ { path } ]

Rmdir(f, path) == [ f EXCEPT !.dirs = @ \ { path } ]

\* backup_dir = None
NoDir == << >>

\* the seconds at which datetime.now() is read for a name conflict
Stamps == 0..1

\* datetime.now().strftime("%Y%m%d_%H%M%S")
Timestamp(second) ==
    << "2", "0", "2", "6", "0", "1", "0", "1", "_", "0", "0", "0", "0", "0" >>
    \o (IF second = 0 THEN << "0" >> ELSE << "1" >>)

\* backup_path.with_name(f"{backup_path.stem}_{timestamp}{backup_path.suffix}")
WithTimestamp(path, second) ==
    LET cs == Chars(path[Len(path)])
    IN  Append(Parent(path),
               Str(PathStem(cs) \o << "_" >> \o Timestamp(second) \o PathSuffix(cs)))

\* Path.mkdir(parents=True, exist_ok=True): fails where a file is in the way
Mkdirs(f, d) ==
    LET chain == { SubSeq(d, 1, n) : n \in 1..Len(d) }
    IN  IF chain \cap DOMAIN f.files # {}
        THEN [ ok |-> FALSE, fs |-> f ]
        ELSE [ ok |-> TRUE, fs |-> [ f EXCEPT !.dirs = @ \cup chain ] ]

\* os.rename(src, dst): src and all below it go to dst; a file at dst is replaced
Rename(f, src, dst) ==
    LET to(q)    == dst \o SubSeq(q, Len(src) + 1, Len(q))
        from(p)  == CHOOSE q \in DOMAIN f.files : IsPrefix(src, q) /\ to(q) = p
        moving   == { q \in DOMAIN f.files : IsPrefix(src, q) }
        arriving == { to(q) : q \in moving }
        staying  == DOMAIN f.files \ (moving \cup arriving)
        reloc(S) == { q \in S : ~IsPrefix(src, q) /\ q \notin arriving }
                    \cup { to(q) : q \in { x \in S : IsPrefix(src, x) } }
    IN  [ dirs       |-> reloc(f.dirs),
          files      |-> [p \in staying \cup arriving |->
                            IF p \in arriving THEN f.files[from(p)] ELSE f.files[p]],
          unreadable |-> reloc(f.unreadable),
          nostat     |-> reloc(f.nostat) ]

\* shutil.move(src, dst): into dst when dst is a directory, never onto an
\* entry of that directory, never a directory into itself or onto a file
ShutilMove(f, src, dst) ==
    LET real_dst == IF dst \in f.dirs THEN Append(dst, src[Len(src)]) ELSE dst
    IN  IF \/ dst \in f.dirs /\ Exists(f, real_dst)
           \/ src \in f.dirs /\ IsPrefix(src, real_dst)
           \/ src \in f.dirs /\ real_dst \in DOMAIN f.files
        THEN [ ok |-> FALSE, fs |-> f ]
        ELSE [ ok |-> TRUE, fs |-> Rename(f, src, real_dst) ]

\* the "if backup and self.backup_dir" branch of delete_file: relative_to
\* raises for a path outside the home directory
MoveToBackup(f, filepath, mode) ==
    IF ~IsPrefix(Home, filepath) THEN [ ok |-> FALSE, fs |-> f ]
    ELSE LET rel_path    == SubSeq(filepath, Len(Home) + 1, Len(filepath))
             backup_path == mode.backup_dir \o rel_path
             made        == Mkdirs(f, Parent(backup_path))
         IN  IF ~made.ok THEN made
             ELSE IF Exists(made.fs, backup_path)
                  THEN ShutilMove(made.fs, filepath, WithTimestamp(backup_path, mode.second))
                  ELSE ShutilMove(made.fs, filepath, backup_path)

\* Cleaner.delete_file on st = [fs, cleaner]: a path that is gone counts as
\* done without being counted; rmdir of a directory that is not empty raises
\* OSError; every exception counts as a failure
delete_file(st, filepath, mode) ==
    IF ~Exists(st.fs, filepath) THEN st
    ELSE LET file_size == IF filepath \in DOMAIN st.fs.files
                          THEN st.fs.files[filepath].size ELSE 0
             done(f) == [ fs |-> f,
                          cleaner |-> [ st.cleaner EXCEPT
                                          !.deleted_count = @ + 1,
                                          !.deleted_size = @ + file_size ] ]
             failed(f) == [ fs |-> f,
                            cleaner |-> [ st.cleaner EXCEPT !.failed_count = @ + 1 ] ]
         IN  IF mode.backup /\ mode.backup_dir # NoDir
             THEN LET moved == MoveToBackup(st.fs, filepath, mode)
                  IN  IF moved.ok THEN done(moved.fs) ELSE failed(moved.fs)
             ELSE IF filepath \in st.fs.dirs
                  THEN IF HasChildren(st.fs, filepath)
                       THEN failed(st.fs)
                       ELSE done(Rmdir(st.fs, filepath))
                  ELSE done(Unlink(st.fs, filepath))

RECURSIVE DeleteEach(_, _, _)
DeleteEach(st, files, mode) ==
    IF files = << >> THEN st
    ELSE DeleteEach(delete_file(st, Head(files), mode), Tail(files), mode)

NewCleaner == [ deleted_count |-> 0, deleted_size |-> 0, failed_count |-> 0 ]

\* Cleaner.clean_category: the counters start from zero for every call
clean_category(f, files, mode) ==
    DeleteEach([ fs |-> f, cleaner |-> NewCleaner ], files, mode)

(***************************************************************************)
(* The trees and command lines a run starts from.                          *)
(***************************************************************************)
NormalSlots ==
    { << "home", "a.txt" >>, << "home", "b.txt" >>, << "home", "docs", "c.txt" >> }

JunkSlots ==
    { << "home", "docs", "D.LOG" >>, << "home", "._a" >>,
      << "home", "docs", ".DS_Store" >> }

SkippedSlots == { << "home", "Music", "in", "s.txt" >> }

FileSlots == NormalSlots \cup JunkSlots \cup SkippedSlots

\* the files whose content may be unreadable
UnreadableSlots == { << "home", "a.txt" >>, << "home", "b.txt" >> }

\* the directories that may exist without a file in them
OptionalDirs ==
    { << "home", "docs" >>, << "home", "docs", "sub" >>,
      << "home", "Music" >>, << "home", "Music", "in" >> }

\* the proper prefixes of a path
Ancestors(path) == { SubSeq(path, 1, n) : n \in 1..(Len(path) - 1) }

FileAttrs == [ size : Sizes, mtime : Times, content : Contents ]

Plain == Content(0, 0, 0)

\* what a file in a slot may be.  A file outside the duplicate funnel's full
\* hash (empty, small, or sampled by the quick hash) has the plain content;
\* a junk file or a file under a skipped directory varies in size only
RichKinds(path) ==
    IF path \in NormalSlots
    THEN { a \in FileAttrs : /\ a.size = 0 => a.mtime = 0
                             /\ a.size # 2 * DupMinSize => a.content = Plain }
    ELSE IF path \in JunkSlots
    THEN { a \in FileAttrs : a.size \in { 0, 2 * DupMinSize } /\ a.mtime = 0
                             /\ a.content = Plain }
    ELSE { a \in FileAttrs : a.size = 2 * DupMinSize /\ a.mtime = 0 /\ a.content = Plain }

\* fewer kinds
PlainKinds(path) ==
    { a \in RichKinds(path) : a.size \in { 0, 2 * DupMinSize } /\ a.content = Plain }

\* one kind per slot, for the runs that vary the directories
FixedKinds(path) ==
    { a \in RichKinds(path) : a.size = 2 * DupMinSize /\ a.mtime = 0 /\ a.content = Plain }

\* the kinds of a slot in a family of trees
KindsOf(family, path) ==
    CASE family = "rich"  -> RichKinds(path)
      [] family = "plain" -> PlainKinds(path)
      [] family = "fixed" -> FixedKinds(path)

EmptyMap == [q \in {} |-> Plain]

Extend(files, path, attrs) ==
    [q \in DOMAIN files \cup { path } |-> IF q = path THEN attrs ELSE files[q]]

\* every assignment of kinds to at most MaxFiles of the slots, with at most
\* one junk file
RECURSIVE FileMaps(_, _)
FileMaps(slots, family) ==
    IF slots = {} THEN { EmptyMap }
    ELSE LET path == CHOOSE q \in slots : TRUE
             rest == FileMaps(slots \ { path }, family)
             room == { m \in rest : /\ Cardinality(DOMAIN m) < MaxFiles
                                    /\ path \in JunkSlots => DOMAIN m \cap JunkSlots = {} }
         IN  rest \cup { Extend(m, path, k) : m \in room, k \in KindsOf(family, path) }

\* the directories closed under parent
DirSets == { D \in SUBSET OptionalDirs : \A d \in D : Ancestors(d) \subseteq D \cup { Home } }

Tree(files, extra, unreadable) ==
    [ dirs       |-> { Home } \cup extra \cup UNION { Ancestors(q) : q \in DOMAIN files },
      files      |-> files,
      unreadable |-> unreadable,
      nostat     |-> {} ]

\* the subsets of the files that can be hashed and may be unreadable
UnreadableSets(files) ==
    SUBSET { q \in DOMAIN files \cap UnreadableSlots : files[q].size > DupMinSize }

ArgPaths == { Home, << "home", "Music" >>, << "nowhere" >> }

Args(path, large_mb, old_days) ==
    [ path |-> path, large_mb |-> large_mb, old_days |-> old_days, backup |-> FALSE ]

\* the thresholds tried on the home directory: the program's signs of both
ThresholdArgs == { Args(Home, 1, 1), Args(Home, -1, -1) }

PathArgs == { Args(q, 1, 1) : q \in ArgPaths }

\* a run on the files of the tree: their kinds vary, the directories are
\* those the files need
FilesStart(family) ==
    /\ args \in ThresholdArgs
    /\ \E m \in FileMaps(FileSlots, family) : \E U \in UnreadableSets(m) :
         fs = Tree(m, {}, U)

\* the entries whose stat() may fail
NoStatSlots == { << "home", "b.txt" >>, << "home", "docs", "c.txt" >> }

\* a run on a tree with entries whose stat() fails
StatStart ==
    /\ args \in ThresholdArgs
    /\ \E m \in FileMaps(NormalSlots \cup JunkSlots, "plain") :
         \E N \in SUBSET (DOMAIN m \cap NoStatSlots) :
            /\ N # {}
            /\ fs = [ Tree(m, {}, {}) EXCEPT !.nostat = N ]

\* the tree of two files of one content beside an empty c.tmp
ScenarioSizes == { 10, 2 * DupMinSize }

ScenarioFiles(size, ta, tb) ==
    Extend(Extend(Extend(EmptyMap,
        << "home", "a.txt" >>, [ size |-> size, mtime |-> ta, content |-> Plain ]),
        << "home", "b.txt" >>, [ size |-> size, mtime |-> tb, content |-> Plain ]),
        << "home", "c.tmp" >>, [ size |-> 0, mtime |-> 0, content |-> Plain ])

ScenarioStart ==
    /\ args \in ThresholdArgs
    /\ \E size \in ScenarioSizes, ta, tb \in Times :
         fs = Tree(ScenarioFiles(size, ta, tb), {}, {})

\* the files another process may remove between scan() and print_summary()
VanishSlots == { << "home", "a.txt" >>, << "home", "b.txt" >>, << "home", "docs", "D.LOG" >> }

\* a run whose summary is printed for files that may be gone by then
SummaryStart ==
    /\ args = Args(Home, 1, 1)
    /\ \E m \in FileMaps(NormalSlots \cup { << "home", "docs", "D.LOG" >> }, "rich") :
         fs = Tree(m, {}, {})

\* a run with --backup on the home directory
BackupArgs == [ Args(Home, 1, 1) EXCEPT !.backup = TRUE ]

\* what the home directory may hold beside the backup directory: a.txt,
\* b.txt of the same content, and docs holding nothing but Music
BackupHomeFiles ==
    { m \in [ { << "home", "a.txt" >>, << "home", "b.txt" >> } ->
                { [ size |-> 2 * DupMinSize, mtime |-> t, content |-> Plain ] : t \in Times }
                \cup { [ size |-> 0, mtime |-> 0, content |-> Plain ] } ] :
        m[<< "home", "a.txt" >>] # m[<< "home", "b.txt" >>] }

BackupHomeDirs == { {}, { << "home", "docs" >>, << "home", "docs", "Music" >> } }

\* what an earlier run may have left in the backup directory: nothing, the
\* empty directory, a.txt, or a.txt and a copy stamped with the second 0
BackupLeftovers ==
    LET a  == << "home", ".cleanup_backup", "a.txt" >>
        a0 == << "home", ".cleanup_backup", "a_20260101_000000.txt" >>
        d  == << "home", ".cleanup_backup" >>
        first  == [ size |-> DupMinSize, mtime |-> 0, content |-> Plain ]
        second == [ size |-> MB, mtime |-> 0, content |-> Plain ]
    IN  { [ dirs |-> {}, files |-> EmptyMap ],
          [ dirs |-> { d }, files |-> EmptyMap ],
          [ dirs |-> { d }, files |-> Extend(EmptyMap, a, first) ],
          [ dirs |-> { d }, files |-> Extend(Extend(EmptyMap, a, first), a0, second) ] }

BackupStart ==
    /\ args = BackupArgs
    /\ \E m \in BackupHomeFiles, D \in BackupHomeDirs, left \in BackupLeftovers :
         fs = Tree([ q \in DOMAIN m \cup DOMAIN left.files |->
                       IF q \in DOMAIN m THEN m[q] ELSE left.files[q] ],
                   D \cup left.dirs, {})

\* the slots of the trees the menu is run on
MenuSlots == NormalSlots \cup { << "home", "._a" >> }

\* a run through the menu: fewer slots, fewer kinds
MenuStart ==
    /\ args \in ThresholdArgs
    /\ \E m \in FileMaps(MenuSlots, "plain") : \E U \in UnreadableSets(m) :
         fs = Tree(m, {}, U)

\* a run on the directories of the tree: they vary, and so does the path
\* the scan starts from
DirsStart ==
    /\ args \in PathArgs
    /\ \E m \in FileMaps(FileSlots, "fixed"), D \in DirSets : fs = Tree(m, D, {})

\* no result to compare the scanner with
NoPrev == [ same |-> FALSE, result |-> << >> ]

\* nothing printed yet
NoSummary ==
    [ printed |-> FALSE, count |-> << 0, 0, 0, 0, 0, 0 >>,
      duplicates |-> 0, junk |-> 0, large |-> 0, old |-> 0 ]

Fresh ==
    /\ clock = Now
    /\ pc = "start"
    /\ scanner = CleanupScanner(args.path, args.large_mb, args.old_days, clock)
    /\ summary = NoSummary
    /\ cleaner = [ deleted_count |-> 0, deleted_size |-> 0, failed_count |-> 0 ]
    /\ handed = {}
    /\ keep = {}
    /\ rescans = 0
    /\ prev = NoPrev
    /\ complete = FALSE

Init == (MenuStart \/ DirsStart) /\ Fresh

ScanInit == (FilesStart("rich") \/ DirsStart \/ StatStart \/ ScenarioStart) /\ Fresh

(***************************************************************************)
(* main()                                                                  *)
(***************************************************************************)
Categories == << "1", "2", "3", "4", "5", "6" >>

total_items(self) ==
    Len(self.duplicates) + Len(self.empty_files) + Len(self.empty_dirs)
    + Len(self.junk_files) + Len(self.large_files) + Len(self.old_files)

\* files[0] of every group: the file the details view marks [KEEP]
KeptOf(self) == { self.duplicates[i].files[1] : i \in 1..Len(self.duplicates) }

\* the files another process removes while main() runs
RECURSIVE Vanish(_, _)
Vanish(f, gone) ==
    IF gone = {} THEN f
    ELSE LET q == CHOOSE x \in gone : TRUE
         IN  Vanish(IF q \in DOMAIN f.files THEN Unlink(f, q) ELSE f, gone \ { q })

\* scanner = CleanupScanner(...); scanner.scan(); scanner.print_summary();
\* "Nothing to do" ends main().  The files of gone are removed by another
\* process between scan() and print_summary().
MainScan(gone) ==
    /\ pc = "start"
    /\ scanner' = scan(CleanupScanner(args.path, args.large_mb, args.old_days, clock), fs)
    /\ fs' = Vanish(fs, gone)
    /\ summary' = print_summary(scanner', fs')
    /\ pc' = IF total_items(scanner') = 0 THEN "exit" ELSE "menu"
    /\ keep' = KeptOf(scanner')
    /\ complete' = TRUE
    /\ UNCHANGED << args, clock, cleaner, handed, rescans, prev >>

\* NewScanner that keeps the scanner in hand
NewScanner_Reuse(old, now) == old

\* choice 'r': scanner = CleanupScanner(args.path, args.large_mb, args.old_days)
NewScanner(old, now) == CleanupScanner(args.path, args.large_mb, args.old_days, now)

\* choice 'r', chosen tick days after the scanner in hand was built
Rescan(tick) ==
    /\ pc = "menu"
    /\ rescans < MaxRescans
    /\ clock' = clock + tick
    /\ scanner' = scan(NewScanner(scanner, clock'), fs)
    /\ summary' = print_summary(scanner', fs)
    /\ rescans' = rescans + 1
    /\ keep' = KeptOf(scanner')
    /\ handed' = {}
    /\ prev' = IF handed = {} THEN [ same |-> TRUE, result |-> scanner ] ELSE NoPrev
    /\ complete' = TRUE
    /\ UNCHANGED << args, fs, pc, cleaner >>

\* OnKeyboardInterrupt that goes back to the menu
OnKeyboardInterrupt_Resume == "menu"

\* "except KeyboardInterrupt: ... sys.exit(0)" around main()
OnKeyboardInterrupt == "exit"

\* Ctrl-C during the first scan() or during the scan() of choice 'r': the
\* name scanner is bound to the new CleanupScanner before scan() is called
InterruptScan ==
    /\ \/ pc = "start" /\ rescans' = rescans
       \/ pc = "menu" /\ rescans < MaxRescans /\ rescans' = rescans + 1
    /\ scanner' \in InterruptedScans(
           CleanupScanner(args.path, args.large_mb, args.old_days, clock), fs)
    /\ complete' = FALSE
    /\ pc' = OnKeyboardInterrupt
    /\ UNCHANGED << args, fs, clock, summary, cleaner, handed, keep, prev >>

\* choice 'q'
Quit ==
    /\ pc = "menu"
    /\ pc' = "exit"
    /\ UNCHANGED << args, fs, clock, scanner, summary, cleaner, handed, keep,
                    rescans, prev, complete >>

\* "Clear the cleaned category"
ClearCategory(self, category) ==
    CASE category = "1" -> [ self EXCEPT !.duplicates = << >> ]
      [] category = "2" -> [ self EXCEPT !.empty_files = << >> ]
      [] category = "3" -> [ self EXCEPT !.empty_dirs = << >> ]
      [] category = "4" -> [ self EXCEPT !.junk_files = << >> ]
      [] category = "5" -> [ self EXCEPT !.large_files = << >> ]
      [] category = "6" -> [ self EXCEPT !.old_files = << >> ]

RECURSIVE ClearAll(_, _)
ClearAll(self, cats) ==
    IF cats = << >> THEN self
    ELSE ClearAll(ClearCategory(self, Head(cats)), Tail(cats))

\* main's backup_dir: Path.home() / '.cleanup_backup' with --backup, else None
backup_dir(a) == IF a.backup THEN Append(Home, ".cleanup_backup") ELSE NoDir

\* what clean_category is called with: args.backup, the cleaner's backup
\* directory, and the second at which a name conflict reads the clock
Mode(second) ==
    [ backup |-> args.backup, backup_dir |-> backup_dir(args), second |-> second ]

\* "if args.backup: backup_dir.mkdir(parents=True, exist_ok=True)"
MakeBackupDir(f) ==
    IF args.backup THEN Mkdirs(f, backup_dir(args)) ELSE [ ok |-> TRUE, fs |-> f ]

\* choice 'd1'..'d6': nothing happens when the category is empty or the
\* user does not confirm; an exception of the mkdir ends the program
DeleteCategory(category, confirmed, second) ==
    /\ pc = "menu"
    /\ LET files == get_files_for_category(scanner, category)
           made  == MakeBackupDir(fs)
       IN  IF files = << >> \/ ~confirmed
           THEN UNCHANGED << fs, scanner, cleaner, handed, pc >>
           ELSE IF ~made.ok
           THEN pc' = "exit" /\ UNCHANGED << fs, scanner, cleaner, handed >>
           ELSE LET st == clean_category(made.fs, files, Mode(second))
                IN  /\ fs' = st.fs
                    /\ cleaner' = st.cleaner
                    /\ handed' = handed \cup Range(files)
                    /\ scanner' = ClearCategory(scanner, category)
                    /\ pc' = pc
    /\ UNCHANGED << args, clock, summary, keep, rescans, prev, complete >>

\* choice 'a': every category's files in one list, two confirmations
DeleteAll(confirmed, second) ==
    /\ pc = "menu"
    /\ LET all_files ==
               Flatten(Map(Categories, LAMBDA c : get_files_for_category(scanner, c)))
           made == MakeBackupDir(fs)
       IN  IF all_files = << >> \/ ~confirmed
           THEN UNCHANGED << fs, scanner, cleaner, handed, pc >>
           ELSE IF ~made.ok
           THEN pc' = "exit" /\ UNCHANGED << fs, scanner, cleaner, handed >>
           ELSE LET st == clean_category(made.fs, all_files, Mode(second))
                IN  /\ fs' = st.fs
                    /\ cleaner' = st.cleaner
                    /\ handed' = handed \cup Range(all_files)
                    /\ scanner' = ClearAll(scanner, Categories)
                    /\ pc' = pc
    /\ UNCHANGED << args, clock, summary, keep, rescans, prev, complete >>

Ticks == 0..1

Next ==
    \/ MainScan({})
    \/ \E tick \in Ticks : Rescan(tick)
    \/ InterruptScan
    \/ Quit
    \/ \E c \in Range(Categories), confirmed \in BOOLEAN, second \in Stamps :
          DeleteCategory(c, confirmed, second)
    \/ \E confirmed \in BOOLEAN, second \in Stamps : DeleteAll(confirmed, second)

Spec == Init /\ [][Next]_vars

\* the scan alone, on more kinds of files
ScanNext == MainScan({}) \/ Quit

ScanSpec == ScanInit /\ [][ScanNext]_vars

\* the scan and its summary, with another process removing files in between
SummaryInit == SummaryStart /\ Fresh

SummaryNext == (\E gone \in SUBSET VanishSlots : MainScan(gone)) \/ Quit

SummarySpec == SummaryInit /\ [][SummaryNext]_vars

\* one pass through the menu with --backup
BackupInit == BackupStart /\ Fresh

BackupNext ==
    \/ MainScan({})
    \/ Quit
    \/ \E c \in Range(Categories), confirmed \in BOOLEAN, second \in Stamps :
          DeleteCategory(c, confirmed, second)
    \/ \E confirmed \in BOOLEAN, second \in Stamps : DeleteAll(confirmed, second)

BackupSpec == BackupInit /\ [][BackupNext]_vars

(***************************************************************************)
(* Vocabulary of the properties.                                           *)
(***************************************************************************)
\* a scan has run: scanner holds its result
Scanned == pc # "start"

\* a directory the walk from args.path opens and does not skip
VisitedDir(d) ==
    /\ d \in fs.dirs
    /\ args.path \in fs.dirs
    /\ IsPrefix(args.path, d)
    /\ \A i \in 1..Len(d) : d[i] \notin SKIP_DIRS

\* a command line the program is not meant for: a negative threshold, or a
\* path that is no directory
ConfigError == args.large_mb < 0 \/ args.old_days < 0 \/ args.path \notin fs.dirs

\* a file of a visited directory whose stat() succeeds
VisibleFile(path) ==
    /\ path \in DOMAIN fs.files
    /\ path \notin fs.nostat
    /\ VisitedDir(Parent(path))

EmptyFiles == Range(scanner.empty_files)
EmptyDirs  == Range(scanner.empty_dirs)
JunkFiles  == Range(scanner.junk_files)
LargeFiles == { scanner.large_files[i].path : i \in 1..Len(scanner.large_files) }
OldFiles   == { scanner.old_files[i].path : i \in 1..Len(scanner.old_files) }
Groups     == { scanner.duplicates[i].files : i \in 1..Len(scanner.duplicates) }
DupMembers == UNION { Range(g) : g \in Groups }

\* how often x occurs in the sequence s
Count(s, x) == Cardinality({ i \in 1..Len(s) : s[i] = x })

\* the position of a file in the order of encounter of the walk
Encounter(path) ==
    LET all == AllFiles(fs, args.path)
    IN  CHOOSE i \in 1..Len(all) : all[i].path = path

(***************************************************************************)
(* C1: after a scan, every visible file of size 0 is in EmptyFiles, once,  *)
(* and no file of size 0 is in JunkFiles, LargeFiles, OldFiles or a        *)
(* duplicate group, whatever its name and whatever the thresholds.         *)
(***************************************************************************)
C1_EmptyFilesOnlyInEmptyFiles ==
    Scanned =>
        \A path \in DOMAIN fs.files :
            fs.files[path].size = 0 =>
                /\ VisibleFile(path) => Count(scanner.empty_files, path) = 1
                /\ path \notin JunkFiles \cup LargeFiles \cup OldFiles \cup DupMembers

\* an empty file with a junk name, under thresholds that make every file
\* large and old, reported as empty
C1_Witness ==
    /\ Scanned
    /\ scanner.large_threshold <= 0
    /\ scanner.old_threshold > MaxTime
    /\ \E path \in EmptyFiles : is_junk_file(path) /\ fs.files[path].size = 0

(***************************************************************************)
(* C2: after a scan no path is in two of the classes EmptyFiles,           *)
(* JunkFiles and LargeFiles-or-OldFiles, and each bucket lists a path once.*)
(***************************************************************************)
C2_ClassesDisjoint ==
    Scanned =>
        /\ EmptyFiles \cap JunkFiles = {}
        /\ (EmptyFiles \cup JunkFiles) \cap (LargeFiles \cup OldFiles) = {}
        /\ \A path \in EmptyFiles : fs.files[path].size = 0
        /\ \A path \in JunkFiles : is_junk_file(path)

\* a junk file that is not empty and passes both thresholds, beside a file
\* that is both large and old
C2_Witness ==
    /\ Scanned
    /\ LargeFiles \cap OldFiles # {}
    /\ \E path \in JunkFiles :
         /\ fs.files[path].size >= scanner.large_threshold
         /\ fs.files[path].mtime < scanner.old_threshold

(***************************************************************************)
(* C3: every member of a duplicate group is larger than 1024 bytes and is  *)
(* not junk.                                                               *)
(***************************************************************************)
C3_DuplicatesAboveMinSizeNotJunk ==
    Scanned =>
        \A path \in DupMembers :
            /\ path \in DOMAIN fs.files
            /\ fs.files[path].size > 1024
            /\ ~is_junk_file(path)

\* two visible files of exactly 1024 bytes with the same content, and no
\* duplicate group
C3_Witness ==
    /\ Scanned
    /\ scanner.duplicates = << >>
    /\ \E p, q \in DOMAIN fs.files :
         /\ p # q /\ VisibleFile(p) /\ VisibleFile(q)
         /\ ~is_junk_file(p) /\ ~is_junk_file(q)
         /\ fs.files[p].size = 1024 /\ fs.files[q].size = 1024
         /\ fs.files[p].content = fs.files[q].content

(***************************************************************************)
(* C4: in every duplicate group the modification times do not increase     *)
(* from one member to the next, and members of equal modification time     *)
(* are in their order of encounter.                                        *)
(***************************************************************************)
C4_GroupsNewestFirstStable ==
    Scanned =>
        \A g \in Groups : \A i, j \in 1..Len(g) :
            i < j =>
                /\ fs.files[g[i]].mtime >= fs.files[g[j]].mtime
                /\ fs.files[g[1]].mtime >= fs.files[g[j]].mtime
                /\ fs.files[g[i]].mtime = fs.files[g[j]].mtime
                       => Encounter(g[i]) < Encounter(g[j])

\* a group of three: the newest was met last, the other two are as old as
\* each other
C4_Witness ==
    /\ Scanned
    /\ \E g \in Groups :
         /\ Len(g) = 3
         /\ fs.files[g[1]].mtime > fs.files[g[2]].mtime
         /\ fs.files[g[2]].mtime = fs.files[g[3]].mtime
         /\ Encounter(g[1]) > Encounter(g[3])

(***************************************************************************)
(* C5: get_files_for_category("1") lists every member of every duplicate   *)
(* group but the first, once, and nothing else: no first member is in it.  *)
(***************************************************************************)
C5_DuplicatesToDeleteAreNonFirst ==
    Scanned =>
        LET files == get_files_for_category(scanner, "1")
        IN  /\ \A g \in Groups :
                 /\ g[1] \notin Range(files)
                 /\ \A i \in 2..Len(g) : Count(files, g[i]) = 1
            /\ \A path \in Range(files) :
                 \E g \in Groups : \E i \in 2..Len(g) : g[i] = path

\* at the menu, a group of three whose second and third members are the list
C5_Witness ==
    /\ pc = "menu"
    /\ \E g \in Groups :
         /\ Len(g) = 3
         /\ get_files_for_category(scanner, "1") = << g[2], g[3] >>

(***************************************************************************)
(* C6: no first (kept) member of a duplicate group of the last scan is     *)
(* passed to Cleaner.clean_category, by any confirmed d1..d6 or a, and it  *)
(* is still on disk.  Stated for the command lines with thresholds that    *)
(* are not negative.                                                       *)
(***************************************************************************)
C6_KeptNeverHanded ==
    ~ConfigError =>
        /\ handed \cap keep = {}
        /\ keep \subseteq DOMAIN fs.files

(***************************************************************************)
(* C7, as claimed: every visited directory whose every descendant is       *)
(* filtered or empty is in EmptyDirs.  A descendant is filtered when a     *)
(* directory segment below the directory is skip-listed; a directory whose *)
(* descendants are all filtered or empty is empty.                         *)
(***************************************************************************)
Descendants(d) == { q \in fs.dirs \cup DOMAIN fs.files : IsPrefix(d, q) /\ q # d }

Filtered(d, q) ==
    LET last == IF q \in fs.dirs THEN Len(q) ELSE Len(q) - 1
    IN  \E i \in (Len(d) + 1)..last : q[i] \in SKIP_DIRS

C7_AllDescendantsFilteredOrEmpty ==
    Scanned =>
        \A d \in fs.dirs :
            (VisitedDir(d) /\ \A q \in Descendants(d) : Filtered(d, q) \/ q \in fs.dirs)
                => d \in EmptyDirs

(***************************************************************************)
(* C7, amended: a visited directory is in EmptyDirs, once, exactly when it *)
(* holds no file and no sub-directory but skip-listed ones; no other path  *)
(* is in EmptyDirs.                                                        *)
(***************************************************************************)
NoRetainedChildren(d) ==
    \A q \in fs.dirs \cup DOMAIN fs.files :
        Parent(q) = d => q \in fs.dirs /\ q[Len(q)] \in SKIP_DIRS

C7_EmptyDirsHaveNoRetainedChildren ==
    Scanned =>
        /\ \A d \in fs.dirs :
             VisitedDir(d) =>
                 Count(scanner.empty_dirs, d) = (IF NoRetainedChildren(d) THEN 1 ELSE 0)
        /\ \A d \in EmptyDirs : VisitedDir(d)

\* a directory that holds a skip-listed directory and nothing else, reported
C7_Witness ==
    /\ Scanned
    /\ \E d \in EmptyDirs : \E q \in fs.dirs : Parent(q) = d

(***************************************************************************)
(* C8: nothing with a skip-listed directory segment is reported in a       *)
(* bucket or a duplicate group, and the statistics count the visited       *)
(* directories and their files only.                                       *)
(***************************************************************************)
RECURSIVE TotalSize(_)
TotalSize(paths) ==
    IF paths = {} THEN 0
    ELSE LET q == CHOOSE x \in paths : TRUE
         IN  fs.files[q].size + TotalSize(paths \ { q })

C8_NothingUnderSkippedDirs ==
    Scanned =>
        /\ \A path \in EmptyFiles \cup JunkFiles \cup LargeFiles \cup OldFiles \cup DupMembers :
             \A i \in 1..(Len(path) - 1) : path[i] \notin SKIP_DIRS
        /\ \A d \in EmptyDirs : \A i \in 1..Len(d) : d[i] \notin SKIP_DIRS
        /\ scanner.files_scanned = Cardinality({ q \in DOMAIN fs.files : VisibleFile(q) })
        /\ scanner.dirs_scanned = Cardinality({ d \in fs.dirs : VisitedDir(d) })
        /\ scanner.total_size_scanned = TotalSize({ q \in DOMAIN fs.files : VisibleFile(q) })

\* a scan of the home directory that counted files, with a file two levels
\* under a skip-listed directory
C8_Witness ==
    /\ Scanned
    /\ args.path = Home
    /\ scanner.files_scanned > 0
    /\ << "home", "Music", "in", "s.txt" >> \in DOMAIN fs.files

(***************************************************************************)
(* C9: with a negative large-file threshold, a negative old-file day count *)
(* or a root path that does not exist, no scan is run.                     *)
(***************************************************************************)
C9_ConfigErrorIsFatal == ConfigError => ~Scanned /\ scanner.dirs_scanned = 0

(***************************************************************************)
(* C10: a file whose fingerprint fails is in no duplicate group, every     *)
(* group has two members or more, and the files whose fingerprints succeed *)
(* are grouped: two of them of one size and one fingerprint share a group. *)
(***************************************************************************)
Hashable(path) ==
    /\ VisibleFile(path)
    /\ fs.files[path].size > 1024
    /\ ~is_junk_file(path)
    /\ get_file_hash(fs, path) # NoHash

C10_FailedFingerprintExcluded ==
    Scanned =>
        /\ \A path \in DupMembers : get_file_hash(fs, path) # NoHash
        /\ \A g \in Groups : Len(g) >= 2
        /\ \A p, q \in DOMAIN fs.files :
             ( /\ p # q /\ Hashable(p) /\ Hashable(q)
               /\ fs.files[p].size = fs.files[q].size
               /\ get_file_hash(fs, p) = get_file_hash(fs, q) )
                 => \E g \in Groups : { p, q } \subseteq Range(g)

\* three files of one size and one content: the one that cannot be read is
\* in no group, the other two are a group
C10_Witness ==
    /\ Scanned
    /\ \E u \in fs.unreadable : \E g \in Groups :
         /\ Len(g) = 2
         /\ VisibleFile(u)
         /\ fs.files[u].size = fs.files[g[1]].size
         /\ fs.files[u].content = fs.files[g[1]].content

(***************************************************************************)
(* C11: a file whose stat() fails is in no bucket and no duplicate group   *)
(* and is not counted; the files are counted, put in buckets and grouped   *)
(* as a scan of the tree without the failing entries does it, and the      *)
(* directories are counted and reported as a scan of the tree in which no  *)
(* stat() fails does it.                                                   *)
(***************************************************************************)
C11_StatFailureExcluded ==
    (Scanned /\ fs.nostat # {}) =>
        LET fresh  == CleanupScanner(args.path, args.large_mb, args.old_days, clock)
            absent == scan(fresh, Vanish(fs, fs.nostat))
            quiet  == scan(fresh, [ fs EXCEPT !.nostat = {} ])
        IN  /\ fs.nostat \cap (EmptyFiles \cup JunkFiles \cup LargeFiles
                                \cup OldFiles \cup DupMembers) = {}
            /\ scanner.files_scanned = absent.files_scanned
            /\ scanner.total_size_scanned = absent.total_size_scanned
            /\ scanner.empty_files = absent.empty_files
            /\ scanner.junk_files = absent.junk_files
            /\ scanner.large_files = absent.large_files
            /\ scanner.old_files = absent.old_files
            /\ scanner.duplicates = absent.duplicates
            /\ scanner.dirs_scanned = quiet.dirs_scanned
            /\ scanner.empty_dirs = quiet.empty_dirs

\* a scan that met an entry whose stat() fails and went on to record a file
\* listed after it; the entry's twin in size and content is in no group
C11_Witness ==
    /\ Scanned
    /\ \E u \in fs.nostat : \E p, q \in DOMAIN fs.files :
         /\ VisitedDir(Parent(u))
         /\ VisibleFile(p) /\ p \notin DupMembers
         /\ fs.files[p].size > DupMinSize
         /\ fs.files[p].size = fs.files[u].size
         /\ fs.files[p].content = fs.files[u].content
         /\ q \in OldFiles /\ Parent(q) # Parent(u)
         /\ scanner.files_scanned = 2

(***************************************************************************)
(* C12, as claimed: a rescan of a tree from which nothing was deleted      *)
(* since the scan before it yields the same six counts, the same duplicate *)
(* groups and the same statistics.                                         *)
(***************************************************************************)
SameCounts(a, b) ==
    /\ Len(a.duplicates) = Len(b.duplicates)
    /\ Len(a.empty_files) = Len(b.empty_files)
    /\ Len(a.empty_dirs) = Len(b.empty_dirs)
    /\ Len(a.junk_files) = Len(b.junk_files)
    /\ Len(a.large_files) = Len(b.large_files)
    /\ Len(a.old_files) = Len(b.old_files)

SameStatistics(a, b) ==
    /\ a.files_scanned = b.files_scanned
    /\ a.dirs_scanned = b.dirs_scanned
    /\ a.total_size_scanned = b.total_size_scanned

\* the scanner holds the result of 'r' on the tree the result before it
\* was made from
Rescanned == prev.same /\ handed = {} /\ complete

C12_RescanIdempotent ==
    Rescanned =>
        /\ SameCounts(prev.result, scanner)
        /\ prev.result.duplicates = scanner.duplicates
        /\ SameStatistics(prev.result, scanner)

(***************************************************************************)
(* C12, amended: such a rescan yields the same statistics, the same        *)
(* duplicate groups and the same empty, junk and large lists; it lists     *)
(* every file the scan before it listed as old, and exactly those when no  *)
(* file's modification time lies between the two scans' old-file           *)
(* thresholds, each taken from the clock when its scan starts.             *)
(***************************************************************************)
NoFileCrossed(a, b) ==
    \A q \in DOMAIN fs.files :
        fs.files[q].mtime < a.old_threshold <=> fs.files[q].mtime < b.old_threshold

C12_RescanIdempotentBetweenThresholds ==
    Rescanned =>
        /\ SameStatistics(prev.result, scanner)
        /\ prev.result.duplicates = scanner.duplicates
        /\ prev.result.empty_files = scanner.empty_files
        /\ prev.result.empty_dirs = scanner.empty_dirs
        /\ prev.result.junk_files = scanner.junk_files
        /\ prev.result.large_files = scanner.large_files
        /\ Range(prev.result.old_files) \subseteq Range(scanner.old_files)
        /\ NoFileCrossed(prev.result, scanner) =>
               prev.result.old_files = scanner.old_files

\* a rescan a day later of a tree with a duplicate group and an old file,
\* none of whose files became old in between
C12_Witness ==
    /\ Rescanned
    /\ pc = "menu"
    /\ scanner.old_threshold > prev.result.old_threshold
    /\ NoFileCrossed(prev.result, scanner)
    /\ scanner.old_files # << >>
    /\ scanner.duplicates # << >>

(***************************************************************************)
(* C13, as claimed: for the tree of a.txt (10 bytes), b.txt (10 bytes, the *)
(* same content, newer) and c.tmp (0 bytes) the scan yields the one group  *)
(* [b.txt, a.txt], c.tmp as the one empty file and no junk file.           *)
(***************************************************************************)
IsScenario(size) ==
    LET a == << "home", "a.txt" >>
        b == << "home", "b.txt" >>
        c == << "home", "c.tmp" >>
    IN  /\ args.path = Home
        /\ fs.dirs = { Home }
        /\ DOMAIN fs.files = { a, b, c }
        /\ fs.unreadable = {} /\ fs.nostat = {}
        /\ fs.files[a].size = size /\ fs.files[b].size = size
        /\ fs.files[a].content = fs.files[b].content
        /\ fs.files[b].mtime > fs.files[a].mtime
        /\ fs.files[c].size = 0

OneGroupNewestKept ==
    /\ Len(scanner.duplicates) = 1
    /\ scanner.duplicates[1].files = << << "home", "b.txt" >>, << "home", "a.txt" >> >>
    /\ KeptOf(scanner) = { << "home", "b.txt" >> }

EmptyNotJunk ==
    /\ scanner.empty_files = << << "home", "c.tmp" >> >>
    /\ scanner.junk_files = << >>

C13_ScenarioTenBytes ==
    (Scanned /\ IsScenario(10)) => (OneGroupNewestKept /\ EmptyNotJunk)

(***************************************************************************)
(* C13, amended: for that tree the scan yields no duplicate group, c.tmp   *)
(* as the one empty file and no junk file; with a.txt and b.txt of 2048    *)
(* bytes each it yields the one group [b.txt, a.txt].                      *)
(***************************************************************************)
C13_ScenarioAboveMinSize ==
    /\ (Scanned /\ IsScenario(10)) => (scanner.duplicates = << >> /\ EmptyNotJunk)
    /\ (Scanned /\ IsScenario(2 * DupMinSize)) => (OneGroupNewestKept /\ EmptyNotJunk)

\* the scan of the tree with the files of 10 bytes
C13_Witness ==
    /\ Scanned
    /\ IsScenario(10)
    /\ scanner.files_scanned = 3

(***************************************************************************)
(* C14: each total size of the summary (duplicates, junk, large, old) is   *)
(* the sum of the sizes of the listed files that exist when the summary is *)
(* printed: a file that is gone by then adds nothing.                      *)
(***************************************************************************)
\* the sum of the present sizes of the listed paths that exist
SizeOfPresent(paths) ==
    SumSeq(Map(SelectSeq(paths, LAMBDA q : q \in DOMAIN fs.files),
               LAMBDA q : fs.files[q].size))

C14_GoneFilesAddNothing ==
    summary.printed =>
        /\ summary.duplicates = SizeOfPresent(get_files_for_category(scanner, "1"))
        /\ summary.junk = SizeOfPresent(get_files_for_category(scanner, "4"))
        /\ summary.large = SizeOfPresent(get_files_for_category(scanner, "5"))
        /\ summary.old = SizeOfPresent(get_files_for_category(scanner, "6"))

(***************************************************************************)
(* C15: the menu, where every command (view, delete, delete-all, rescan)   *)
(* is read and run, is never reached with a scanner whose scan() was       *)
(* interrupted: after an interrupt main() is over.                         *)
(***************************************************************************)
C15_InterruptedScanNeverUsed ==
    /\ pc = "menu" => complete
    /\ (~complete /\ pc # "start") => pc = "exit"

\* choice 'r' interrupted in the walk with some of the files recorded, after
\* a delete command had run on the complete result before it
C15_Witness ==
    /\ ~complete
    /\ pc = "exit"
    /\ rescans = 1
    /\ handed # {}
    /\ scanner.files_scanned > 0
    /\ scanner.files_scanned < Cardinality({ q \in DOMAIN fs.files : VisibleFile(q) })

(***************************************************************************)
(* C16: the duplicate groups are the classes of two or more candidate      *)
(* files (visible, larger than 1024 bytes, not junk, fingerprint computed) *)
(* of one size and one fingerprint: each such class is the member set of   *)
(* exactly one group, keyed by the fingerprint, and each group is such a   *)
(* class with every member listed once.                                    *)
(***************************************************************************)
ClassOf(p) ==
    { q \in DOMAIN fs.files :
        /\ Hashable(q)
        /\ fs.files[q].size = fs.files[p].size
        /\ get_file_hash(fs, q) = get_file_hash(fs, p) }

C16_GroupsAreSizeAndFingerprintClasses ==
    Scanned =>
        LET class == [ p \in { q \in DOMAIN fs.files : Hashable(q) } |-> ClassOf(p) ]
        IN  /\ \A p \in DOMAIN class :
                 Cardinality(class[p]) >= 2 =>
                     Cardinality({ i \in 1..Len(scanner.duplicates) :
                                     Range(scanner.duplicates[i].files) = class[p] }) = 1
            /\ \A i \in 1..Len(scanner.duplicates) :
                 LET g == scanner.duplicates[i].files
                 IN  /\ Len(g) >= 2
                     /\ Cardinality(Range(g)) = Len(g)
                     /\ \A p \in Range(g) :
                          /\ p \in DOMAIN class
                          /\ Range(g) = class[p]
                          /\ scanner.duplicates[i].hash = get_file_hash(fs, p)

\* three candidates of one size: two of one content are the one group, the
\* third, of another content, is in none
C16_Witness ==
    /\ Scanned
    /\ Len(scanner.duplicates) = 1
    /\ \E p \in DOMAIN fs.files : \E q \in DupMembers :
         /\ Hashable(p)
         /\ p \notin DupMembers
         /\ fs.files[p].size = fs.files[q].size
         /\ fs.files[p].content # fs.files[q].content

(***************************************************************************)
(* C17: a step of the menu that empties a category of the scanner, other   *)
(* than a rescan, is a confirmed dN or a whose Cleaner.clean_category      *)
(* reported no failed item.                                                *)
(***************************************************************************)
C17_ClearedOnlyAfterSuccess ==
    [][ (pc = "menu" /\ pc' = "menu" /\ rescans' = rescans /\ scanner' # scanner)
            => cleaner'.failed_count = 0 ]_vars

(***************************************************************************)
(* C18: with --backup a disposal never destroys file content.  Every file  *)
(* that exists before a step of the menu is afterwards either unchanged at *)
(* its own path or found, unchanged, under the backup directory: nothing   *)
(* is unlinked, and a move never overwrites a file the backup directory    *)
(* already holds.                                                          *)
(***************************************************************************)
KeptInPlace(q) == q \in DOMAIN fs'.files /\ fs'.files[q] = fs.files[q]

FoundInBackup(q) ==
    \E p \in DOMAIN fs'.files :
       IsPrefix(backup_dir(args), p) /\ fs'.files[p] = fs.files[q]

C18_BackupNeverDestroys ==
    [][ (args.backup /\ pc = "menu") =>
            \A q \in DOMAIN fs.files : KeptInPlace(q) \/ FoundInBackup(q) ]_vars

====
